---- MODULE Spec2Model ----
(***************************************************************************)
(* Model of the e-mail triage pipeline of src/email_triage.py:             *)
(* EmailTriageSystem.classify_and_summarize_email, fallback_classification,*)
(* send_slack_notification, extract_keywords, update_analytics,            *)
(* generate_keyword_analytics and the batch loop of run_triage_workflow.   *)
(* Python str values are TLA+ strings; s[i] is SubSeq(s, i, i).            *)
(***************************************************************************)
EXTENDS Integers, Sequences, FiniteSets, TLC

(***************************************************************************)
(* Bounds of the model.                                                    *)
(***************************************************************************)
\* largest number of messages the message source hands to one run
MaxBatch == 2

(***************************************************************************)
(* Program constants.                                                      *)
(***************************************************************************)
\* fetch_unread_emails: email_ids[-10:]
FetchLimit == 10
\* fallback_classification: email_data['subject'][:30]
SubjectTrunc == 30
\* generate_keyword_analytics: keyword_counts.most_common(5)
TopN == 5
\* extract_keywords: [a-zA-Z]{3,}
MinWordLen == 3
\* send_slack_notification: response.status_code == 200
HttpOk == 200

\* Python None and a present value v, for locals that start as None
None == <<>>

Some(v) == <<v>>

\* self.categories (__init__)
categories == <<"Product Support", "Billing", "General Inquiry">>

Categories == {categories[i] : i \in 1..Len(categories)}

(***************************************************************************)
(* Python str primitives used by the program.                              *)
(***************************************************************************)
Ch(s, i) == SubSeq(s, i, i)

Min(a, b) == IF a < b THEN a ELSE b

\* s[:n]
Take(s, n) == SubSeq(s, 1, Min(n, Len(s)))

\* s[n+1:]
Drop(s, n) == SubSeq(s, Min(n, Len(s)) + 1, Len(s))

UpperAlpha == "ABCDEFGHIJKLMNOPQRSTUVWXYZ"

LowerAlpha == "abcdefghijklmnopqrstuvwxyz"

Digits == "0123456789"

InStr(c, alphabet) == \E i \in 1..Len(alphabet) : Ch(alphabet, i) = c

LowerCh(c) ==
    IF InStr(c, UpperAlpha)
    THEN Ch(LowerAlpha, CHOOSE i \in 1..Len(UpperAlpha) : Ch(UpperAlpha, i) = c)
    ELSE c

RECURSIVE LowerFrom(_, _)
LowerFrom(s, i) ==
    IF i > Len(s) THEN "" ELSE LowerCh(Ch(s, i)) \o LowerFrom(s, i + 1)

\* str.lower()
Lower(s) == LowerFrom(s, 1)

\* word in text
Contains(text, word) ==
    \E i \in 1..(Len(text) - Len(word) + 1) : SubSeq(text, i, i + Len(word) - 1) = word

\* line.startswith(prefix)
StartsWith(line, prefix) ==
    /\ Len(line) >= Len(prefix)
    /\ SubSeq(line, 1, Len(prefix)) = prefix

IsSpace(c) == c \in {" ", "\n", "\t", "\r"}

RECURSIVE LStrip(_)
LStrip(s) ==
    IF Len(s) > 0 /\ IsSpace(Ch(s, 1)) THEN LStrip(Drop(s, 1)) ELSE s

RECURSIVE RStrip(_)
RStrip(s) ==
    IF Len(s) > 0 /\ IsSpace(Ch(s, Len(s))) THEN RStrip(Take(s, Len(s) - 1)) ELSE s

\* str.strip()
Strip(s) == RStrip(LStrip(s))

RECURSIVE SplitFrom(_, _, _)
SplitFrom(s, i, cur) ==
    IF i > Len(s) THEN <<cur>>
    ELSE IF Ch(s, i) = "\n" THEN <<cur>> \o SplitFrom(s, i + 1, "")
    ELSE SplitFrom(s, i + 1, cur \o Ch(s, i))

\* response_text.split('\n')
SplitLines(s) == SplitFrom(s, 1, "")

RECURSIVE Remove(_, _)
\* line.replace(old, '')
Remove(s, old) ==
    IF Len(s) < Len(old) THEN s
    ELSE IF StartsWith(s, old) THEN Remove(Drop(s, Len(old)), old)
    ELSE Ch(s, 1) \o Remove(Drop(s, 1), old)

(***************************************************************************)
(* fallback_classification (src/email_triage.py:208-222)                    *)
(***************************************************************************)
ProductSupportTriggers == <<"bug", "error", "not working", "issue", "problem", "feature">>

BillingTriggers == <<"bill", "payment", "invoice", "charge", "refund", "price">>

\* any(word in text for word in triggers)
AnyIn(text, triggers) == \E i \in 1..Len(triggers) : Contains(text, triggers[i])

\* the text without .lower()
FallbackTextCased(email_data) == email_data.subject \o " " \o email_data.body

\* text = f"{subject} {body}".lower()
FallbackText(email_data) == Lower(email_data.subject \o " " \o email_data.body)

\* the trigger lists tested in the other order
FallbackCategoryBillingFirst(email_data) ==
    IF AnyIn(FallbackText(email_data), BillingTriggers) THEN "Billing"
    ELSE IF AnyIn(FallbackText(email_data), ProductSupportTriggers) THEN "Product Support"
    ELSE "General Inquiry"

\* if any(... Product Support triggers) / elif any(... Billing triggers) / else
FallbackCategory(email_data) ==
    IF AnyIn(FallbackText(email_data), ProductSupportTriggers) THEN "Product Support"
    ELSE IF AnyIn(FallbackText(email_data), BillingTriggers) THEN "Billing"
    ELSE "General Inquiry"

\* a summary that also carries the time the message was fetched
FallbackSummaryStamped(email_data) ==
    "Email from " \o email_data.sender \o " - "
        \o Take(email_data.subject, SubjectTrunc) \o "... at "
        \o Ch(Digits, email_data.timestamp + 1)

\* summary = f"Email from {sender} - {subject[:30]}..."
FallbackSummary(email_data) ==
    "Email from " \o email_data.sender \o " - "
        \o Take(email_data.subject, SubjectTrunc) \o "..."

fallback_classification(email_data) ==
    [category |-> FallbackCategory(email_data), summary |-> FallbackSummary(email_data)]

(***************************************************************************)
(* classify_and_summarize_email (src/email_triage.py:163-206)               *)
(***************************************************************************)
\* the for loop over lines: the last matching line of each kind wins
RECURSIVE ParseLines(_, _, _, _)
ParseLines(lines, i, category, summary) ==
    IF i > Len(lines) THEN [category |-> category, summary |-> summary]
    ELSE IF StartsWith(lines[i], "Category:")
         THEN ParseLines(lines, i + 1, Some(Strip(Remove(lines[i], "Category:"))), summary)
    ELSE IF StartsWith(lines[i], "Summary:")
         THEN ParseLines(lines, i + 1, category, Some(Strip(Remove(lines[i], "Summary:"))))
    ELSE ParseLines(lines, i + 1, category, summary)

\* lines = response.text.strip().split('\n'); category = None; summary = None; loop
ParseResponse(text) == ParseLines(SplitLines(Strip(text)), 1, None, None)

\* validation that lets any extracted category through
ValidatePassThrough(category) ==
    IF category # None THEN category[1] ELSE "General Inquiry"

\* validation that matches the category names without regard to case
ValidateIgnoreCase(category) ==
    IF category # None /\ \E c \in Categories : Lower(c) = Lower(category[1])
    THEN CHOOSE c \in Categories : Lower(c) = Lower(category[1])
    ELSE "General Inquiry"

\* if category not in self.categories: category = "General Inquiry"
ValidateCategory(category) ==
    IF category # None /\ category[1] \in Categories THEN category[1] ELSE "General Inquiry"

\* the synthesized summary in the format of fallback_classification (line 220)
SynthSummaryFallbackScheme(email_data) ==
    "Email from " \o email_data.sender \o " - "
        \o Take(email_data.subject, SubjectTrunc) \o "..."

\* summary = f"Email from {sender} regarding {subject}"
SynthSummary(email_data) ==
    "Email from " \o email_data.sender \o " regarding " \o email_data.subject

\* if not summary: summary = <synthesized>
ValidateSummary(summary, email_data) ==
    IF summary = None \/ summary[1] = "" THEN SynthSummary(email_data) ELSE summary[1]

\* What the Gemini call does: generate_content raises, reading response.text
\* raises, or response.text is a str.
AIRaises(ai) == ai.kind \in {"call_raises", "text_raises"}

\* The body of the try block (lines 179-201): an exception raised by the
\* Gemini call or by reading its text leaves the block, otherwise the block
\* returns the validated pair.
TryAI(email_data, ai) ==
    IF AIRaises(ai)
    THEN [outcome |-> "raise", category |-> "", summary |-> "", fallback |-> FALSE]
    ELSE [outcome  |-> "return",
          category |-> ValidateCategory(ParseResponse(ai.text).category),
          summary  |-> ValidateSummary(ParseResponse(ai.text).summary, email_data),
          fallback |-> FALSE]

\* classify_and_summarize_email without its except clause
ClassifyUncaught(email_data, ai) == TryAI(email_data, ai)

\* classify_and_summarize_email whose except clause returns the default pair
\* instead of calling fallback_classification
ClassifyDefaultOnError(email_data, ai) ==
    IF TryAI(email_data, ai).outcome = "raise"
    THEN [outcome  |-> "return",
          category |-> "General Inquiry",
          summary  |-> SynthSummary(email_data),
          fallback |-> FALSE]
    ELSE TryAI(email_data, ai)

\* classify_and_summarize_email that also falls back when the reply has no
\* category line
ClassifyFallbackOnMissing(email_data, ai) ==
    IF \/ TryAI(email_data, ai).outcome = "raise"
       \/ ParseResponse(ai.text).category = None
    THEN [outcome  |-> "return",
          category |-> fallback_classification(email_data).category,
          summary  |-> fallback_classification(email_data).summary,
          fallback |-> TRUE]
    ELSE TryAI(email_data, ai)

\* The result of one call: outcome "return" with the returned pair, or outcome
\* "raise" when an exception leaves the method; fallback tells whether
\* fallback_classification was invoked.
classify_and_summarize_email(email_data, ai) ==
    IF TryAI(email_data, ai).outcome = "raise"
    THEN \* except Exception: return self.fallback_classification(email_data)
         [outcome  |-> "return",
          category |-> fallback_classification(email_data).category,
          summary  |-> fallback_classification(email_data).summary,
          fallback |-> TRUE]
    ELSE TryAI(email_data, ai)

(***************************************************************************)
(* extract_keywords (src/email_triage.py:285-296)                           *)
(***************************************************************************)
stop_words ==
    {"the", "is", "at", "which", "on", "and", "a", "to", "are", "as", "was",
     "for", "with", "this", "that", "it", "from", "by", "have", "has", "had",
     "be", "been", "or", "an", "will", "can", "could", "would", "should"}

IsLetter(c) == InStr(c, LowerAlpha) \/ InStr(c, UpperAlpha)

\* a character of the regex class \w, on whose edges \b matches
IsWordCh(c) == IsLetter(c) \/ InStr(c, Digits) \/ c = "_"

RECURSIVE AllLetters(_)
AllLetters(w) == Len(w) = 0 \/ (IsLetter(Ch(w, 1)) /\ AllLetters(Drop(w, 1)))

\* the maximal runs of \w characters of s, left to right
RECURSIVE WordRuns(_, _, _)
WordRuns(s, i, cur) ==
    IF i > Len(s) THEN (IF cur = "" THEN <<>> ELSE <<cur>>)
    ELSE IF IsWordCh(Ch(s, i)) THEN WordRuns(s, i + 1, cur \o Ch(s, i))
    ELSE (IF cur = "" THEN <<>> ELSE <<cur>>) \o WordRuns(s, i + 1, "")

\* re.findall(r'\b[a-zA-Z]{3,}\b', text): a run of letters of length >= 3 that
\* has a word boundary on both sides, i.e. a maximal \w run made of letters only
RECURSIVE FilterWords(_)
FilterWords(runs) ==
    IF runs = <<>> THEN <<>>
    ELSE (IF AllLetters(Head(runs)) /\ Len(Head(runs)) >= MinWordLen
          THEN <<Head(runs)>> ELSE <<>>) \o FilterWords(Tail(runs))

FindWords(text) == FilterWords(WordRuns(text, 1, ""))

\* [word for word in words if word not in stop_words and len(word) > 2]
RECURSIVE FilterStop(_)
FilterStop(words) ==
    IF words = <<>> THEN <<>>
    ELSE (IF Head(words) \notin stop_words /\ Len(Head(words)) > 2
          THEN <<Head(words)>> ELSE <<>>) \o FilterStop(Tail(words))

\* extract_keywords without .lower()
ExtractKeywordsCased(text) == FilterStop(FindWords(text))

\* words without the repetitions of a word
RECURSIVE Dedupe(_, _)
Dedupe(words, i) ==
    IF i > Len(words) THEN <<>>
    ELSE (IF \E j \in 1..(i - 1) : words[j] = words[i]
          THEN <<>> ELSE <<words[i]>>) \o Dedupe(words, i + 1)

\* extract_keywords that returns every keyword once
ExtractKeywordsUnique(text) == Dedupe(FilterStop(FindWords(Lower(text))), 1)

extract_keywords(text) == FilterStop(FindWords(Lower(text)))

(***************************************************************************)
(* generate_keyword_analytics (src/email_triage.py:317-335)                 *)
(***************************************************************************)
\* Counter(keywords)[w]
Count(keywords, w) == Cardinality({i \in 1..Len(keywords) : keywords[i] = w})

\* the keys of Counter(keywords), in insertion (first-seen) order
RECURSIVE Keys(_, _)
Keys(keywords, i) ==
    IF i > Len(keywords) THEN <<>>
    ELSE (IF \E j \in 1..(i - 1) : keywords[j] = keywords[i]
          THEN <<>> ELSE <<keywords[i]>>) \o Keys(keywords, i + 1)

\* index of the last key of ks with the largest count
LastMax(keywords, ks) ==
    CHOOSE i \in 1..Len(ks) :
        /\ \A j \in 1..Len(ks) : Count(keywords, ks[j]) <= Count(keywords, ks[i])
        /\ \A j \in (i + 1)..Len(ks) : Count(keywords, ks[j]) < Count(keywords, ks[i])

\* index of the first key of ks with the largest count
FirstMax(keywords, ks) ==
    CHOOSE i \in 1..Len(ks) :
        /\ \A j \in 1..Len(ks) : Count(keywords, ks[j]) <= Count(keywords, ks[i])
        /\ \A j \in 1..(i - 1) : Count(keywords, ks[j]) < Count(keywords, ks[i])

\* ks without its i-th element
Without(ks, i) == SubSeq(ks, 1, i - 1) \o SubSeq(ks, i + 1, Len(ks))

\* Counter.most_common(n): the n largest counts, equal counts in first-seen order
RECURSIVE MostCommon(_, _, _)
MostCommon(keywords, ks, n) ==
    IF n = 0 \/ ks = <<>> THEN <<>>
    ELSE <<<<ks[FirstMax(keywords, ks)], Count(keywords, ks[FirstMax(keywords, ks)])>>>>
         \o MostCommon(keywords, Without(ks, FirstMax(keywords, ks)), n - 1)

\* sum(1 for email in self.processed_emails if email['category'] == category)
CountCategory(log, category) ==
    Cardinality({i \in 1..Len(log) : log[i].category = category})

\* the entry of one category, with the total counted in both branches
CategoryAnalyticsCounted(log, kw, category) ==
    [top_keywords |-> IF kw[category] # <<>>
                      THEN MostCommon(kw[category], Keys(kw[category], 1), TopN)
                      ELSE <<>>,
     total_emails |-> CountCategory(log, category)]

\* the entry of one category
CategoryAnalytics(log, kw, category) ==
    IF kw[category] # <<>>
    THEN [top_keywords |-> MostCommon(kw[category], Keys(kw[category], 1), TopN),
          total_emails |-> CountCategory(log, category)]
    ELSE [top_keywords |-> <<>>, total_emails |-> 0]

\* analytics of the state (log, kw) = (processed_emails, category_keywords)
generate_keyword_analytics(log, kw) ==
    [c \in Categories |-> CategoryAnalytics(log, kw, c)]

(***************************************************************************)
(* send_slack_notification (src/email_triage.py:224-274)                    *)
(***************************************************************************)
\* What the webhook call does: requests.post returns a response with a status
\* code, or building/posting the message raises.
SlackOutcomes ==
    {[kind |-> "response", status |-> 200],
     [kind |-> "response", status |-> 500],
     [kind |-> "exception", status |-> 0]}

\* send_slack_notification without its except clause: the exception leaves it
SendSlackUncaught(slack) ==
    IF slack.kind = "exception"
    THEN [outcome |-> "raise", sent |-> FALSE]
    ELSE [outcome |-> "return", sent |-> (slack.status = HttpOk)]

\* The result of one call: the bool returned (status 200: True, another
\* status: False, except Exception: False); outcome "raise" would be an
\* exception leaving the method.
send_slack_notification(slack) ==
    IF slack.kind = "exception"
    THEN [outcome |-> "return", sent |-> FALSE]
    ELSE [outcome |-> "return", sent |-> (slack.status = HttpOk)]

(***************************************************************************)
(* update_analytics (src/email_triage.py:298-315)                           *)
(***************************************************************************)
\* text = f"{subject} {body}"; keywords = self.extract_keywords(text)
MessageKeywords(email_data) ==
    extract_keywords(email_data.subject \o " " \o email_data.body)

\* the keywords extended into the list of every category
ExtendEveryCategory(kw, category, keywords) ==
    [c \in DOMAIN kw |-> kw[c] \o keywords]

\* self.category_keywords[category] = keywords
ReplaceKeywords(kw, category, keywords) ==
    [kw EXCEPT ![category] = keywords]

\* the keywords put in front of the list
ExtendKeywordsFront(kw, category, keywords) ==
    [kw EXCEPT ![category] = keywords \o @]

\* self.category_keywords[category].extend(keywords)
ExtendKeywords(kw, category, keywords) ==
    [kw EXCEPT ![category] = @ \o keywords]

\* the record of a message classified a second time, by the keyword rule
TriageRecordReclassified(email_data, category, summary) ==
    [timestamp |-> email_data.timestamp,
     category  |-> FallbackCategory(email_data),
     summary   |-> FallbackSummary(email_data),
     sender    |-> email_data.sender,
     subject   |-> email_data.subject,
     keywords  |-> MessageKeywords(email_data)]

\* the dict appended to self.processed_emails
TriageRecord(email_data, category, summary) ==
    [timestamp |-> email_data.timestamp,
     category  |-> category,
     summary   |-> summary,
     sender    |-> email_data.sender,
     subject   |-> email_data.subject,
     keywords  |-> MessageKeywords(email_data)]

(***************************************************************************)
(* The environment: the messages of the inbox, the replies of the Gemini    *)
(* service.                                                                 *)
(***************************************************************************)
MessageContents ==
    {[subject |-> "Login issue", body |-> "error invalid credentials",
      sender |-> "ann@x.io"],
     [subject |-> "Invoice question", body |-> "charged twice for basic plan",
      sender |-> "bob@x.io"],
     [subject |-> "Hi", body |-> "ok",
      sender |-> "cy@x.io"],
     [subject |-> "Refund for bug", body |-> "payment error",
      sender |-> "dee@x.io"],
     [subject |-> "BUG in Billing page", body |-> "Please fix it",
      sender |-> "eve@x.io"],
     [subject |-> "Question about opening hours during holidays",
      body |-> "Are you open on the 1st",
      sender |-> "fay@x.io"],
     [subject |-> "App not working", body |-> "Nothing happens",
      sender |-> "gus@x.io"],
     [subject |-> "Pricing", body |-> "What is the price of the pro plan",
      sender |-> "hal@x.io"]}

\* the messages of the inboxes of the batch runs
InboxContents ==
    {m \in MessageContents : m.subject \in {"Login issue", "Invoice question", "Hi"}}

AIOutcomes ==
    {[kind |-> "call_raises", text |-> ""],
     [kind |-> "text_raises", text |-> ""],
     [kind |-> "text", text |-> "Category: Billing\nSummary: Customer was charged twice"],
     [kind |-> "text", text |-> "Category: Product Support\nSummary: Login fails"],
     [kind |-> "text", text |-> " Category: General Inquiry \nSummary: Asks about hours\n"],
     [kind |-> "text", text |-> "Category: billing\nSummary: Wants a refund"],
     [kind |-> "text", text |-> "Category: Billing"],
     [kind |-> "text", text |-> "Summary: No category given"],
     [kind |-> "text", text |-> "I am unable to help with that."],
     [kind |-> "text", text |-> "Category: Sales\nSummary:"],
     [kind |-> "text", text |-> "Category: Billing\nCategory: Spam\nSummary: Two categories"],
     [kind |-> "text", text |-> "Category: Product Support\nSummary: One\nSummary: Two"],
     [kind |-> "text", text |-> ""]}

\* the replies of the Gemini service in the batch runs
BatchAIOutcomes ==
    {ai \in AIOutcomes :
        \/ ai.kind = "call_raises"
        \/ ai.text = "Category: Billing\nSummary: Customer was charged twice"
        \/ ai.text = "Category: Sales\nSummary:"}

\* the reply slot when no classification is in flight
NoReply == [kind |-> "none", text |-> ""]

\* the list fetch_unread_emails builds from n messages of the inbox
Batch(n, content) ==
    [i \in 1..n |->
        [id        |-> i,
         subject   |-> content[i].subject,
         sender    |-> content[i].sender,
         body      |-> content[i].body,
         timestamp |-> i]]

(***************************************************************************)
(* save_to_csv (337-362) and save_analytics_report (364-393)                *)
(***************************************************************************)
\* fieldnames
CsvHeader == <<"timestamp", "category", "summary", "sender", "subject">>

\* the row written for one entry of processed_emails
CsvRow(rec) == <<rec.timestamp, rec.category, rec.summary, rec.sender, rec.subject>>

\* the rows of the file save_to_csv writes: the header, then one row per entry
CsvContent(log) == <<CsvHeader>> \o [i \in 1..Len(log) |-> CsvRow(log[i])]

\* What the file system does on an export: the file is written, or open/write raises
IoOutcomes == {"ok", "raise"}

\* save_to_csv that opens the file in append mode
SaveCsvAppending(old, log, io) == IF io = "raise" THEN old ELSE old \o CsvContent(log)

\* The file after save_to_csv: the new content, or (except Exception: return
\* None) the file as it was
save_to_csv(old, log, io) == IF io = "raise" THEN old ELSE CsvContent(log)

\* max(analytics.keys(), key=lambda k: analytics[k]['total_emails']): the first
\* category, in the order of self.categories, with the largest total
MostActive(analytics) ==
    categories[CHOOSE i \in 1..Len(categories) :
        /\ \A j \in 1..Len(categories) :
              analytics[categories[j]].total_emails <= analytics[categories[i]].total_emails
        /\ \A j \in 1..(i - 1) :
              analytics[categories[j]].total_emails < analytics[categories[i]].total_emails]

\* min(...) / max(...) of the timestamps if self.processed_emails else None
FirstStamp(log) ==
    IF log = <<>> THEN None
    ELSE Some(CHOOSE t \in {log[i].timestamp : i \in 1..Len(log)} :
                 \A i \in 1..Len(log) : t <= log[i].timestamp)

LastStamp(log) ==
    IF log = <<>> THEN None
    ELSE Some(CHOOSE t \in {log[i].timestamp : i \in 1..Len(log)} :
                 \A i \in 1..Len(log) : t >= log[i].timestamp)

\* the report dict of save_analytics_report, built at time now
ReportContent(log, kw, now) ==
    LET analytics == generate_keyword_analytics(log, kw) IN
    [generated_at           |-> now,
     total_emails_processed |-> Len(log),
     categories             |-> analytics,
     most_active_category   |-> MostActive(analytics),
     start                  |-> FirstStamp(log),
     end                    |-> LastStamp(log)]

\* The file after save_analytics_report: the new report, or the file as it was
save_analytics_report(old, log, kw, now, io) ==
    IF io = "raise" THEN old ELSE Some(ReportContent(log, kw, now))

(***************************************************************************)
(* Startup: the module-level code (lines 19-45) and load_config (68-95).    *)
(***************************************************************************)
\* required_keys
RequiredKeys == {"gemini_api_key", "email_username", "email_password", "slack_webhook_url"}

AllSet == [k \in RequiredKeys |-> "set"]

\* a source of settings in which at most one required key is absent
\* ("missing") or the empty string ("empty")
OneDefect(k, d) == [AllSet EXCEPT ![k] = d]

Sources == {AllSet} \cup {OneDefect(k, d) : k \in RequiredKeys, d \in {"missing", "empty"}}

\* The settings a run starts with: whether config.json exists, its keys, and
\* the environment variables. The complete settings are those of the
\* environment; a config.json, when there is one, has a defect.
SettingsSpace ==
    {[has_file |-> FALSE, file |-> AllSet, env |-> e] : e \in Sources}
    \cup {[has_file |-> TRUE, file |-> f, env |-> AllSet] : f \in Sources \ {AllSet}}
    \cup {[has_file |-> TRUE, file |-> OneDefect(k, "missing"), env |-> OneDefect(k, "missing")] :
            k \in RequiredKeys}

\* the settings of a run that passed startup
GoodSettings == [has_file |-> FALSE, file |-> AllSet, env |-> AllSet]

\* lines 24-35: os.environ.update({KEY: config.get(key, os.getenv(KEY)), ...})
\* raises TypeError when a value is None
ImportRaises(st) ==
    /\ st.has_file
    /\ \E k \in RequiredKeys : st.file[k] = "missing" /\ st.env[k] = "missing"

\* the dict load_config validates: config.json if it opens, else the environment
LoadedConfig(st) == IF st.has_file THEN st.file ELSE st.env

\* load_config that does not validate
RequiredUnchecked(cfg) == TRUE

\* for key in required_keys: if not config.get(key): raise ValueError
RequiredOk(cfg) == \A k \in RequiredKeys : cfg[k] = "set"

(***************************************************************************)
(* State.                                                                   *)
(***************************************************************************)
VARIABLES
    pc,                \* position in main / run_triage_workflow
    raised,            \* the exception that ended the run, "" if none
    settings,          \* config.json and the environment variables of the run
    mail,              \* the IMAP connection: "none", "open" or "closed"
    clock,             \* the time datetime.now() returns
    parsed,            \* the list fetch_unread_emails built before it returned or raised
    fetch_error,       \* whether fetch_unread_emails printed "Error fetching emails"
    emails,            \* emails: the fetched batch
    idx,               \* index in emails of the message of the for loop
    category,          \* local category of the loop body
    summary,           \* local summary of the loop body
    ai_reply,          \* what the Gemini service did for the message in flight
    fallback_used,     \* whether that classification invoked fallback_classification
    classified,        \* the pairs classify_and_summarize_email returned, in call order
    notifications,     \* the notifications handed to Slack, with the bool returned
    processed_emails,  \* self.processed_emails
    category_keywords, \* self.category_keywords
    csv_file,          \* the rows of the CSV export, None while there is none
    report_file        \* the JSON report, None while there is none

vars == <<pc, raised, settings, mail, clock, parsed, fetch_error, emails, idx, category,
          summary, ai_reply,
          fallback_used, classified, notifications, processed_emails,
          category_keywords, csv_file, report_file>>

analytics_vars == <<processed_emails, category_keywords>>

loop_vars == <<category, summary, ai_reply, fallback_used>>

export_vars == <<csv_file, report_file>>

env_vars == <<settings, clock>>

\* what a call of fetch_unread_emails leaves behind
fetch_vars == <<parsed, fetch_error>>

\* the object after __init__ (lines 61-66), before any call
Fresh ==
    /\ raised = ""
    /\ mail = "none"
    /\ clock = 0
    /\ parsed = <<>>
    /\ fetch_error = FALSE
    /\ emails = <<>>
    /\ idx = 0
    /\ category = ""
    /\ summary = ""
    /\ ai_reply = NoReply
    /\ fallback_used = FALSE
    /\ classified = <<>>
    /\ notifications = <<>>
    /\ processed_emails = <<>>
    /\ category_keywords = [c \in Categories |-> <<>>]
    /\ csv_file = None
    /\ report_file = None

\* __init__ done with complete settings; run_triage_workflow is entered
Init ==
    /\ pc = "connect"
    /\ settings = GoodSettings
    /\ Fresh

\* the module-level code: the run goes on to main, or dies of a TypeError
ImportModule ==
    /\ pc = "import"
    /\ pc' = IF ImportRaises(settings) THEN "crashed" ELSE "construct"
    /\ raised' = IF ImportRaises(settings) THEN "import" ELSE raised
    /\ UNCHANGED <<fetch_vars, env_vars, mail, emails, idx, loop_vars, classified, notifications,
                   analytics_vars, export_vars>>

\* main: triage_system = EmailTriageSystem(); a ValueError of load_config is
\* caught by main, which prints it and ends the run
Construct ==
    /\ pc = "construct"
    /\ pc' = IF RequiredOk(LoadedConfig(settings)) THEN "connect" ELSE "failed"
    /\ raised' = IF RequiredOk(LoadedConfig(settings)) THEN raised ELSE "config"
    /\ UNCHANGED <<fetch_vars, env_vars, mail, emails, idx, loop_vars, classified, notifications,
                   analytics_vars, export_vars>>

\* mail = self.connect_to_email(): returns, or prints and re-raises
ConnectOk ==
    /\ pc = "connect"
    /\ pc' = "fetch"
    /\ mail' = "open"
    /\ UNCHANGED <<fetch_vars, raised, env_vars, emails, idx, loop_vars, classified, notifications,
                   analytics_vars, export_vars>>

ConnectFails ==
    /\ pc = "connect"
    /\ pc' = "failed"
    /\ raised' = "connect"
    /\ UNCHANGED <<fetch_vars, env_vars, mail, emails, idx, loop_vars, classified, notifications,
                   analytics_vars, export_vars>>

\* emails = self.fetch_unread_emails(mail); if not emails: return
FetchEmails ==
    /\ pc = "fetch"
    /\ \E n \in 0..Min(MaxBatch, FetchLimit) : \E content \in [1..n -> InboxContents] :
          /\ parsed' = Batch(n, content)
          /\ emails' = Batch(n, content)
          /\ clock' = clock + n
          /\ pc' = IF n = 0 THEN "returned" ELSE "classify"
          /\ idx' = IF n = 0 THEN idx ELSE 1
    /\ UNCHANGED <<raised, settings, fetch_error, mail, loop_vars, classified,
                   notifications, analytics_vars, export_vars>>

\* fetch_unread_emails without its except clause
FetchFailsUncaught ==
    /\ pc = "fetch"
    /\ pc' = "failed"
    /\ raised' = "fetch"
    /\ UNCHANGED <<fetch_vars, env_vars, mail, emails, idx, loop_vars, classified, notifications,
                   analytics_vars, export_vars>>

\* fetch_unread_emails whose except clause returns the messages parsed so far
FetchFailsKeepsParsed ==
    /\ pc = "fetch"
    /\ \E n \in 0..Min(MaxBatch, FetchLimit) : \E content \in [1..n -> InboxContents] :
          /\ parsed' = Batch(n, content)
          /\ emails' = Batch(n, content)
          /\ clock' = clock + n
          /\ pc' = IF n = 0 THEN "returned" ELSE "classify"
          /\ idx' = IF n = 0 THEN idx ELSE 1
    /\ fetch_error' = TRUE
    /\ UNCHANGED <<raised, settings, mail, loop_vars, classified, notifications,
                   analytics_vars, export_vars>>

\* fetch_unread_emails raises after n messages were parsed (in the search, or
\* in the fetch or the parsing of message n + 1): except Exception: return [];
\* then, in run_triage_workflow, if not emails: return
FetchFails ==
    /\ pc = "fetch"
    /\ \E n \in 0..Min(MaxBatch, FetchLimit) : \E content \in [1..n -> InboxContents] :
          /\ parsed' = Batch(n, content)
          /\ clock' = clock + n
    /\ fetch_error' = TRUE
    /\ emails' = <<>>
    /\ pc' = "returned"
    /\ UNCHANGED <<raised, settings, mail, idx, loop_vars, classified, notifications,
                   analytics_vars, export_vars>>

\* category, summary = self.classify_and_summarize_email(email_data)
ClassifyWith(ai) ==
    LET r == classify_and_summarize_email(emails[idx], ai) IN
    /\ pc = "classify"
    /\ ai_reply' = ai
    /\ fallback_used' = r.fallback
    /\ IF r.outcome = "raise"
       THEN /\ pc' = "failed"
            /\ raised' = "classify"
            /\ UNCHANGED <<category, summary, classified>>
       ELSE /\ pc' = "notify"
            /\ category' = r.category
            /\ summary' = r.summary
            /\ classified' = Append(classified,
                  [id |-> emails[idx].id, fallback |-> r.fallback,
                   category |-> r.category, summary |-> r.summary])
            /\ UNCHANGED raised
    /\ UNCHANGED <<fetch_vars, env_vars, mail, emails, idx, notifications, analytics_vars, export_vars>>

Classify == \E ai \in BatchAIOutcomes : ClassifyWith(ai)

\* the loop body without the call of send_slack_notification
NotifySkipped ==
    /\ pc = "notify"
    /\ pc' = "record"
    /\ UNCHANGED <<fetch_vars, raised, env_vars, mail, emails, idx, loop_vars, classified,
                   notifications, analytics_vars, export_vars>>

\* self.send_slack_notification(email_data, category, summary)
Notify ==
    /\ pc = "notify"
    /\ \E slack \in SlackOutcomes :
          LET r == send_slack_notification(slack) IN
          /\ notifications' = Append(notifications,
                [id       |-> emails[idx].id,
                 category |-> category,
                 summary  |-> summary,
                 sent     |-> r.sent])
          /\ pc' = IF r.outcome = "raise" THEN "failed" ELSE "record"
          /\ raised' = IF r.outcome = "raise" THEN "notify" ELSE raised
    /\ UNCHANGED <<fetch_vars, env_vars, mail, emails, idx, loop_vars, classified, analytics_vars,
                   export_vars>>

\* update_analytics that does not store the record
DropRecord(log, rec) == log

\* self.processed_emails.append(record), at the head of the list instead
PrependRecord(log, rec) == <<rec>> \o log

\* self.processed_emails.append(record)
AppendRecord(log, rec) == Append(log, rec)

\* update_analytics(email_data, category, summary) on the analytics state
RecordWith(email_data, cat, summ) ==
    LET record == TriageRecord(email_data, cat, summ) IN
    /\ category_keywords' = ExtendKeywords(category_keywords, cat, record.keywords)
    /\ processed_emails' = AppendRecord(processed_emails, record)

\* self.update_analytics(email_data, category, summary); time.sleep(1); next message
UpdateAnalytics ==
    /\ pc = "record"
    /\ ai_reply' = NoReply
    /\ IF category \in Categories
       THEN /\ RecordWith(emails[idx], category, summary)
            /\ clock' = clock + 1
            /\ pc' = IF idx < Len(emails) THEN "classify" ELSE "close"
            /\ idx' = IF idx < Len(emails) THEN idx + 1 ELSE idx
            /\ UNCHANGED raised
       ELSE \* self.category_keywords[category] raises KeyError
            /\ pc' = "failed"
            /\ raised' = "KeyError"
            /\ UNCHANGED <<clock, idx, analytics_vars>>
    /\ UNCHANGED <<fetch_vars, settings, mail, emails, category, summary, fallback_used, classified,
                   notifications, export_vars>>

\* the workflow without mail.close(); mail.logout()
CloseSkipped ==
    /\ pc = "close"
    /\ pc' = "save_csv"
    /\ UNCHANGED <<fetch_vars, raised, env_vars, mail, emails, idx, loop_vars, classified,
                   notifications, analytics_vars, export_vars>>

\* mail.close(); mail.logout()
CloseOk ==
    /\ pc = "close"
    /\ mail' = "closed"
    /\ pc' = "save_csv"
    /\ UNCHANGED <<fetch_vars, raised, env_vars, emails, idx, loop_vars, classified, notifications,
                   analytics_vars, export_vars>>

\* mail.close() or mail.logout() raises: except Exception: print; raise
CloseFails ==
    /\ pc = "close"
    /\ pc' = "failed"
    /\ raised' = "close"
    /\ UNCHANGED <<fetch_vars, env_vars, mail, emails, idx, loop_vars, classified, notifications,
                   analytics_vars, export_vars>>

\* self.save_to_csv()
SaveCsv ==
    /\ pc = "save_csv"
    /\ \E io \in IoOutcomes : csv_file' = save_to_csv(csv_file, processed_emails, io)
    /\ pc' = "save_report"
    /\ UNCHANGED <<fetch_vars, raised, env_vars, mail, emails, idx, loop_vars, classified,
                   notifications, analytics_vars, report_file>>

\* self.save_analytics_report(); then the printed analytics summary
SaveReport ==
    /\ pc = "save_report"
    /\ \E io \in IoOutcomes :
          report_file' = save_analytics_report(report_file, processed_emails,
                                               category_keywords, clock, io)
    /\ pc' = "done"
    /\ UNCHANGED <<fetch_vars, raised, env_vars, mail, emails, idx, loop_vars, classified,
                   notifications, analytics_vars, csv_file>>

Next ==
    \/ ConnectOk
    \/ ConnectFails
    \/ FetchEmails
    \/ FetchFails
    \/ Classify
    \/ Notify
    \/ UpdateAnalytics
    \/ CloseOk
    \/ CloseFails
    \/ SaveCsv
    \/ SaveReport

Spec == Init /\ [][Next]_vars

\* the positions of run_triage_workflow at which a statement is still to run
Running ==
    {"connect", "fetch", "classify", "notify", "record", "close", "save_csv", "save_report"}

\* the positions at which the run is over
Ended == {"done", "returned", "failed"}

\* the statement at the current position runs to its end: control moves on
Advance ==
    /\ pc \in Running
    /\ pc' \in (Running \cup Ended) \ {pc}

\* The statements of the program run one after the other, and every external
\* call returns or raises: control never stays at a running position for ever.
\* Every step of Next moves pc, so that this is weak fairness of Next.
FairSpec == Spec /\ WF_pc(Advance)

(***************************************************************************)
(* A run from the start of the process, with any settings of SettingsSpace. *)
(***************************************************************************)
InitStartup ==
    /\ pc = "import"
    /\ settings \in SettingsSpace
    /\ Fresh

NextStartup ==
    \/ ImportModule
    \/ Construct
    \/ Next

SpecStartup == InitStartup /\ [][NextStartup]_vars

(***************************************************************************)
(* One call of classify_and_summarize_email on any message of              *)
(* MessageContents with any reply of AIOutcomes.                            *)
(***************************************************************************)
InitCall ==
    /\ pc = "classify"
    /\ settings = GoodSettings
    /\ raised = ""
    /\ mail = "open"
    /\ clock = 1
    /\ \E m \in MessageContents : emails = Batch(1, <<m>>)
    /\ parsed = emails
    /\ fetch_error = FALSE
    /\ idx = 1
    /\ category = ""
    /\ summary = ""
    /\ ai_reply = NoReply
    /\ fallback_used = FALSE
    /\ classified = <<>>
    /\ notifications = <<>>
    /\ processed_emails = <<>>
    /\ category_keywords = [c \in Categories |-> <<>>]
    /\ csv_file = None
    /\ report_file = None

ClassifyCall == \E ai \in AIOutcomes : ClassifyWith(ai)

NextCall == ClassifyCall

SpecCall == InitCall /\ [][NextCall]_vars

(***************************************************************************)
(* The analytics methods called directly on a constructed object:          *)
(* update_analytics any number of times, then the exporters.                *)
(***************************************************************************)
\* largest number of update_analytics calls
MaxRecords == 2

\* largest time that passes between the exports
MaxTicks == 1

\* the messages handed to update_analytics
ApiContents ==
    {[subject |-> "Refund refund status", body |-> "Please refund my order",
      sender |-> "ida@x.io"],
     [subject |-> "Order status", body |-> "Where is the order status page",
      sender |-> "jon@x.io"],
     [subject |-> "Hi", body |-> "ok",
      sender |-> "cy@x.io"]}

\* message m as fetched at time t
Fetched(m, t) ==
    [id |-> t, subject |-> m.subject, sender |-> m.sender, body |-> m.body, timestamp |-> t]

InitApi ==
    /\ pc = "api"
    /\ settings = GoodSettings
    /\ Fresh

\* update_analytics(email_data, category, summary), before any export
RecordCallWith(m, c) ==
    /\ pc = "api"
    /\ RecordWith(Fetched(m, clock + 1), c, SynthSummary(m))
    /\ clock' = clock + 1
    /\ emails' = Append(emails, Fetched(m, clock + 1))
    /\ idx' = Len(emails) + 1
    /\ UNCHANGED <<fetch_vars, pc, raised, settings, mail, loop_vars, classified,
                   notifications, export_vars>>

RecordCall ==
    /\ Len(processed_emails) < MaxRecords
    /\ \E m \in ApiContents, c \in Categories : RecordCallWith(m, c)

\* save_to_csv(filename)
SaveCsvCall ==
    /\ pc \in {"api", "exporting"}
    /\ pc' = "exporting"
    /\ \E io \in IoOutcomes : csv_file' = save_to_csv(csv_file, processed_emails, io)
    /\ UNCHANGED <<fetch_vars, raised, env_vars, mail, emails, idx, loop_vars, classified,
                   notifications, analytics_vars, report_file>>

\* save_analytics_report whose snapshot empties the keyword lists it counted
SaveReportCallConsuming ==
    /\ pc \in {"api", "exporting"}
    /\ pc' = "exporting"
    /\ \E io \in IoOutcomes :
          report_file' = save_analytics_report(report_file, processed_emails,
                                               category_keywords, clock, io)
    /\ category_keywords' = [c \in Categories |-> <<>>]
    /\ UNCHANGED <<fetch_vars, raised, env_vars, mail, emails, idx, loop_vars, classified,
                   notifications, processed_emails, csv_file>>

\* save_analytics_report(filename)
SaveReportCall ==
    /\ pc \in {"api", "exporting"}
    /\ pc' = "exporting"
    /\ \E io \in IoOutcomes :
          report_file' = save_analytics_report(report_file, processed_emails,
                                               category_keywords, clock, io)
    /\ UNCHANGED <<fetch_vars, raised, env_vars, mail, emails, idx, loop_vars, classified,
                   notifications, analytics_vars, csv_file>>

\* time passes between two exports
Tick ==
    /\ pc = "exporting"
    /\ clock < Len(processed_emails) + MaxTicks
    /\ clock' = clock + 1
    /\ UNCHANGED <<fetch_vars, pc, raised, settings, mail, emails, idx, loop_vars, classified,
                   notifications, analytics_vars, export_vars>>

NextApi ==
    \/ RecordCall
    \/ SaveCsvCall
    \/ SaveReportCall
    \/ Tick

SpecApi == InitApi /\ [][NextApi]_vars

(***************************************************************************)
(* One call of update_analytics on any text of KeywordContents.             *)
(***************************************************************************)
KeywordSubjects ==
    {"The quick fix", "ABC abc Abc", "x1y abc2 3abc", "foo_bar baz",
     "Can't stop-words", "at on is"}

KeywordBodies ==
    {"", "Fun fun FUN", "it's 100% broken!!", "hello\nworld\tagain",
     "should WOULD could work", "ab cde fghi", "Fix the fix, then FIX"}

KeywordContents ==
    {[subject |-> sb, body |-> bd, sender |-> "kim@x.io"] :
        sb \in KeywordSubjects, bd \in KeywordBodies}

RecordKeywords ==
    /\ processed_emails = <<>>
    /\ \E m \in KeywordContents, c \in Categories : RecordCallWith(m, c)

NextKeywords == RecordKeywords

SpecKeywords == InitApi /\ [][NextKeywords]_vars

(***************************************************************************)
(* Properties.                                                              *)
(***************************************************************************)
\* the message of the call in flight, and its lower-cased subject + " " + body
Current == emails[idx]

CurrentText == Lower(Current.subject \o " " \o Current.body)

HasTrigger(triggers) == \E i \in 1..Len(triggers) : Contains(CurrentText, triggers[i])

\* the call of classify_and_summarize_email is over
Called == pc # "classify"

\* the reply was a text, whose parse is Parsed
Replied == ai_reply.kind = "text"

Parsed == ParseResponse(ai_reply.text)

\* C1: for every message and every behaviour of the AI service (any text, or
\* an exception), classify_and_summarize_email returns one of the three fixed
\* categories with a non-empty summary, and no exception leaves it.
C1_ClassifyTotal ==
    Called =>
        /\ pc = "notify"
        /\ raised = ""
        /\ category \in {"Product Support", "Billing", "General Inquiry"}
        /\ summary # ""

C1_Witness ==
    /\ pc = "notify"
    /\ ai_reply.kind = "text_raises"
    /\ category = "Billing"
    /\ summary # ""

\* C3: the adapter returns exactly one of the validated AI result and the
\* fallback result: if the AI call or reading its reply raises, the pair
\* returned is fallback_classification(message); if the reply parses, the
\* fallback classifier is not invoked; no exception reaches the caller.
C3_ExactlyOne ==
    Called =>
        /\ raised = ""
        /\ AIRaises(ai_reply) =>
              /\ fallback_used
              /\ category = fallback_classification(Current).category
              /\ summary = fallback_classification(Current).summary
        /\ Replied => ~fallback_used

C3_Witness ==
    /\ pc = "notify"
    /\ ai_reply.kind = "call_raises"
    /\ fallback_used
    /\ category = "Product Support"
    /\ summary = "Email from ann@x.io - Login issue..."

C8_SubstituteGeneralInquiry ==
    (Called /\ Replied /\ Parsed.category # None
        /\ Parsed.category[1] \notin {"Product Support", "Billing", "General Inquiry"}) =>
        /\ pc = "notify"
        /\ category = "General Inquiry"
        /\ ~fallback_used
        /\ (Parsed.summary # None /\ Parsed.summary[1] # "") => summary = Parsed.summary[1]

C8_Witness ==
    /\ pc = "notify"
    /\ ai_reply.text = "Category: billing\nSummary: Wants a refund"
    /\ Current.subject = "Invoice question"
    /\ category = "General Inquiry"
    /\ summary = "Wants a refund"
    /\ ~fallback_used

\* C9: with the AI path unavailable the category is Product Support if the
\* lower-cased subject+body contains a Product-Support trigger, otherwise
\* Billing if it contains a Billing trigger, otherwise General Inquiry; General
\* Inquiry is returned only for messages with no trigger of either list.
C9_FallbackRule ==
    (Called /\ AIRaises(ai_reply)) =>
        /\ category = "Product Support" <=> HasTrigger(ProductSupportTriggers)
        /\ category = "Billing" <=>
              (~HasTrigger(ProductSupportTriggers) /\ HasTrigger(BillingTriggers))
        /\ category = "General Inquiry" <=>
              (~HasTrigger(ProductSupportTriggers) /\ ~HasTrigger(BillingTriggers))
        /\ (Current.subject = "Login issue" /\ Current.body = "error invalid credentials")
              => category = "Product Support"
        /\ (Current.subject = "Invoice question"
               /\ Current.body = "charged twice for basic plan") => category = "Billing"
        /\ (Current.subject = "BUG in Billing page") => category = "Product Support"
        /\ (Current.subject = "Pricing") => category = "Billing"
        /\ (Current.subject = "Hi" /\ Current.body = "ok") => category = "General Inquiry"

C9_Witness ==
    /\ pc = "notify"
    /\ AIRaises(ai_reply)
    /\ Current.subject = "Invoice question"
    /\ ~HasTrigger(ProductSupportTriggers)
    /\ Contains(CurrentText, "charge")
    /\ category = "Billing"

\* C10: first matching list wins: a message whose text matches both a
\* Product-Support trigger and a Billing trigger is classified Product Support
\* by the fallback classifier, wherever the triggers stand in the text.
C10_ProductSupportFirst ==
    (Called /\ AIRaises(ai_reply)
        /\ HasTrigger(ProductSupportTriggers) /\ HasTrigger(BillingTriggers)) =>
        category = "Product Support"

C10_Witness ==
    /\ pc = "notify"
    /\ AIRaises(ai_reply)
    /\ Current.subject = "Refund for bug"
    /\ HasTrigger(ProductSupportTriggers)
    /\ HasTrigger(BillingTriggers)
    /\ category = "Product Support"

\* the iteration of message i of the batch is over
\* the for loop of run_triage_workflow is over
LoopOver == pc \in {"close", "save_csv", "save_report", "done"} \/ raised = "close"

Processed(i) == i < idx \/ (i = idx /\ LoopOver)

\* C2: in a batch run a notification dispatch failure (non-200 response or
\* exception) neither gates recording nor aborts the batch: the message is
\* still recorded, the later messages are still processed, and a batch of N
\* messages ends with N log entries.
C2_DispatchFailureIsolated ==
    /\ raised # "notify"
    /\ \A i \in 1..Len(notifications) :
          /\ notifications[i].id = emails[i].id
          /\ Processed(i) =>
                /\ i <= Len(processed_emails)
                /\ processed_emails[i].timestamp = emails[i].timestamp
                /\ processed_emails[i].subject = emails[i].subject
    /\ LoopOver =>
          /\ Len(processed_emails) = Len(emails)
          /\ Len(notifications) = Len(emails)

C2_Witness ==
    /\ pc = "done"
    /\ Len(emails) = 2
    /\ ~notifications[1].sent
    /\ notifications[2].sent
    /\ Len(processed_emails) = 2

\* the snapshot of the current analytics state
Snapshot == generate_keyword_analytics(processed_emails, category_keywords)

\* number of TriageRecords of category c
Records(c) == Cardinality({i \in 1..Len(processed_emails) : processed_emails[i].category = c})

\* C5: after any sequence of update_analytics operations, for every category
\* the total_emails of the snapshot equals the number of TriageRecords of that
\* category, also for messages whose subject and body yield no keywords.
C5_TotalMatchesLog ==
    \A c \in Categories : Snapshot[c].total_emails = Records(c)

\* C6: after a batch of N messages has been processed, the total_emails of
\* the snapshot summed over all categories is N.
C6_TotalsSumToN ==
    LoopOver =>
        Snapshot["Product Support"].total_emails + Snapshot["Billing"].total_emails
            + Snapshot["General Inquiry"].total_emails = Len(emails)

\* C7: every TriageRecord of the log has a category of the fixed enumeration,
\* and update_analytics is never invoked by the workflow with a category
\* outside it, whatever the AI service returns.
C7_CategoriesClosed ==
    /\ \A i \in 1..Len(processed_emails) :
          processed_emails[i].category \in {"Product Support", "Billing", "General Inquiry"}
    /\ pc = "record" => category \in {"Product Support", "Billing", "General Inquiry"}
    /\ raised # "KeyError"

C7_Witness ==
    /\ Len(processed_emails) = 1
    /\ pc = "record"
    /\ ai_reply.text = "Category: Sales\nSummary:"
    /\ category = "General Inquiry"

\* messages i and j of the batch have the same subject, body and sender
SameContent(i, j) ==
    /\ emails[i].subject = emails[j].subject
    /\ emails[i].body = emails[j].body
    /\ emails[i].sender = emails[j].sender

\* C11: the fallback classifier is a pure function of the message content:
\* two invocations of a run on messages with the same subject, body and sender
\* return the same (category, summary), whatever the state they are made in,
\* and an invocation changes neither the TriageRecord log nor a keyword list.
C11_FallbackPure ==
    /\ [](\A i \in 1..Len(classified) : \A j \in 1..Len(classified) :
            (classified[i].fallback /\ classified[j].fallback
                /\ SameContent(classified[i].id, classified[j].id)) =>
                /\ classified[i].category = classified[j].category
                /\ classified[i].summary = classified[j].summary)
    /\ [][(pc = "classify" /\ fallback_used') =>
            (processed_emails' = processed_emails
                /\ category_keywords' = category_keywords)]_vars

C11_Witness ==
    /\ Len(classified) = 2
    /\ classified[1].fallback
    /\ classified[2].fallback
    /\ SameContent(1, 2)
    /\ Len(processed_emails) = 1
    /\ category_keywords["Product Support"] # <<>>
    /\ classified[2].summary = "Email from ann@x.io - Login issue..."

\* the keyword lists of the state: one per category, one per TriageRecord
KeywordLists ==
    {category_keywords[c] : c \in Categories}
        \cup {processed_emails[i].keywords : i \in 1..Len(processed_emails)}

CleanToken(t) ==
    /\ Len(t) >= 3
    /\ \A k \in 1..Len(t) : InStr(Ch(t, k), "abcdefghijklmnopqrstuvwxyz")
    /\ t \notin stop_words

\* C12: every token extract_keywords returns is lower-case, purely alphabetic,
\* at least 3 characters long and not a stop word, so no other token is ever
\* added to a keyword list or stored in a TriageRecord.
C12_TokensClean ==
    \A ks \in KeywordLists : \A i \in 1..Len(ks) : CleanToken(ks[i])

C12_Witness ==
    /\ Len(processed_emails) = 1
    /\ emails[1].subject = "Can't stop-words"
    /\ emails[1].body = "Fun fun FUN"
    /\ processed_emails[1].keywords = <<"stop", "words", "fun", "fun", "fun">>

LowerOrWord == "abcdefghijklmnopqrstuvwxyz0123456789_"

\* T[i..j] is a qualifying token of the lower-cased text T: 3+ letters between
\* two word boundaries, not a stop word
Qualifies(T, i, j) ==
    /\ j - i + 1 >= 3
    /\ \A k \in i..j : InStr(Ch(T, k), "abcdefghijklmnopqrstuvwxyz")
    /\ i = 1 \/ ~InStr(Ch(T, i - 1), LowerOrWord)
    /\ j = Len(T) \/ ~InStr(Ch(T, j + 1), LowerOrWord)
    /\ SubSeq(T, i, j) \notin stop_words

TokenStarts(T) == {i \in 1..Len(T) : \E j \in i..Len(T) : Qualifies(T, i, j)}

TokenAt(T, i) == SubSeq(T, i, CHOOSE j \in i..Len(T) : Qualifies(T, i, j))

\* out lists the qualifying tokens of T in the order of the text, once per occurrence
ListsTokens(out, T, starts) ==
    /\ Len(out) = Cardinality(starts)
    /\ \A i \in starts : out[Cardinality({x \in starts : x <= i})] = TokenAt(T, i)

\* C13: extract_keywords is order-preserving and keeps duplicates: its output
\* lists the qualifying tokens of the text in the order they occur there, one
\* entry per occurrence (a token occurring k times is listed k times).
C13_OrderAndDuplicates ==
    Len(processed_emails) = 1 =>
        LET T == Lower(emails[1].subject \o " " \o emails[1].body) IN
        /\ ListsTokens(processed_emails[1].keywords, T, TokenStarts(T))
        /\ category_keywords[processed_emails[1].category] = processed_emails[1].keywords

C13_Witness ==
    /\ Len(processed_emails) = 1
    /\ emails[1].subject = "The quick fix"
    /\ emails[1].body = "Fix the fix, then FIX"
    /\ processed_emails[1].keywords = <<"quick", "fix", "fix", "fix", "then", "fix">>

\* the first position of token t in keyword list ks
FirstSeen(ks, t) == CHOOSE i \in 1..Len(ks) : ks[i] = t /\ \A j \in 1..(i - 1) : ks[j] # t

Occurrences(ks, t) == Cardinality({i \in 1..Len(ks) : ks[i] = t})

TopOk(top, ks) ==
    /\ Len(top) <= 5
    /\ \A k \in 1..Len(top) : top[k][2] = Occurrences(ks, top[k][1])
    /\ \A k \in 1..(Len(top) - 1) : top[k][2] >= top[k + 1][2]
    /\ \A i \in 1..Len(ks) :
          (\A k \in 1..Len(top) : top[k][1] # ks[i]) =>
              \A k \in 1..Len(top) : Occurrences(ks, ks[i]) <= top[k][2]
    /\ \A k \in 1..Len(top) : \A l \in (k + 1)..Len(top) :
          top[k][2] = top[l][2] => FirstSeen(ks, top[k][1]) < FirstSeen(ks, top[l][1])

\* C14: in every snapshot and for every category, top_keywords has at most 5
\* entries, its counts never increase along the list, each count is the number
\* of times the token was recorded for the category, no unlisted token has a
\* larger count than a listed one, and tokens of equal count stand in the order
\* in which they were first recorded.
C14_TopKeywords ==
    \A c \in Categories :
        TopOk(generate_keyword_analytics(processed_emails, category_keywords)[c].top_keywords,
              category_keywords[c])

C14_Witness ==
    /\ Len(processed_emails) = 2
    /\ generate_keyword_analytics(processed_emails, category_keywords)["Billing"].top_keywords
         = << <<"refund", 3>>, <<"status", 3>>, <<"order", 3>>, <<"please", 1>>, <<"where", 1>> >>
    /\ Occurrences(category_keywords["Billing"], "page") = 1

\* the dict load_config validates lacks a required setting, or holds it empty
MissingSetting == \E k \in RequiredKeys : LoadedConfig(settings)[k] # "set"

\* C15: a missing required setting is fatal at startup: the run never gets
\* past the construction of the triage system, it ends there with an error
\* (the ValueError of load_config that main prints, or the TypeError of the
\* module-level code), and no message is fetched, classified, dispatched or
\* recorded in that run.
C15_MissingSettingFatal ==
    MissingSetting =>
        /\ pc \in {"import", "construct", "crashed", "failed"}
        /\ pc = "failed" => raised = "config"
        /\ pc = "crashed" => raised = "import"
        /\ mail = "none"
        /\ emails = <<>>
        /\ classified = <<>>
        /\ notifications = <<>>
        /\ processed_emails = <<>>

C15_Witness ==
    /\ pc = "failed"
    /\ raised = "config"
    /\ ~settings.has_file
    /\ settings.env["slack_webhook_url"] = "missing"
    /\ processed_emails = <<>>

SameMessage(rec, email_data) ==
    /\ rec.sender = email_data.sender
    /\ rec.subject = email_data.subject
    /\ rec.timestamp = email_data.timestamp

\* every message of the batch is recorded, in fetch order
AllRecorded ==
    /\ Len(processed_emails) = Len(emails)
    /\ \A i \in 1..Len(emails) : SameMessage(processed_emails[i], emails[i])

\* C17: when every external call returns or fails, the classification step of
\* each message ends with a category and a summary, and the run over a fetched
\* batch of N messages reaches the end of the loop with all N messages recorded.
C17_Terminates ==
    /\ (pc = "classify") ~> (pc = "notify" /\ category \in Categories /\ summary # "")
    /\ (pc = "classify") ~> (LoopOver /\ AllRecorded)

C17_Witness ==
    /\ pc = "done"
    /\ Len(emails) = 2
    /\ AllRecorded
    /\ classified[2].fallback
    /\ ~classified[1].fallback

\* C18: the TriageRecord log keeps fetch order and is append-only: its i-th
\* entry carries sender, subject and timestamp of the i-th fetched message,
\* after the batch it has one entry per message, and at every step the
\* previous log is a prefix of the current one.
C18_LogInFetchOrder ==
    /\ [](/\ Len(processed_emails) <= Len(emails)
          /\ \A i \in 1..Len(processed_emails) : SameMessage(processed_emails[i], emails[i]))
    /\ [](LoopOver => Len(processed_emails) = Len(emails))
    /\ [][/\ Len(processed_emails) <= Len(processed_emails')
          /\ SubSeq(processed_emails', 1, Len(processed_emails)) = processed_emails]_vars

C18_Witness ==
    /\ pc = "save_csv"
    /\ Len(processed_emails) = 2
    /\ emails[1].subject = "Invoice question"
    /\ emails[2].subject = "Login issue"
    /\ processed_emails[1].subject = "Invoice question"
    /\ processed_emails[2].timestamp = 2

\* C19 as stated: an exporter invoked again on the same analytics state
\* writes the same content, and an export changes neither the log nor a
\* keyword list.
C19_ExportsIdempotent ==
    /\ [][csv_file # None => csv_file' = csv_file]_vars
    /\ [][report_file # None => report_file' = report_file]_vars
    /\ [][pc' = "exporting" => UNCHANGED analytics_vars]_vars

\* reports r and s differ at most in generated_at
SameButStamp(r, s) == [r EXCEPT !.generated_at = 0] = [s EXCEPT !.generated_at = 0]

\* C19 amended: save_to_csv invoked again on the same analytics state writes
\* the same content; save_analytics_report writes the same report except for
\* generated_at, which is the time of the invocation; an export changes
\* neither the log nor a keyword list.
C19_ExportsIdempotentButStamp ==
    /\ [][csv_file # None => csv_file' = csv_file]_vars
    /\ [][(report_file # None /\ report_file' # report_file) =>
            /\ SameButStamp(report_file[1], report_file'[1])
            /\ report_file'[1].generated_at = clock
            /\ clock > report_file[1].generated_at]_vars
    /\ [][pc' = "exporting" => UNCHANGED analytics_vars]_vars

C19_Witness ==
    /\ pc = "exporting"
    /\ Len(processed_emails) = 1
    /\ csv_file = <<CsvHeader, CsvRow(processed_emails[1])>>
    /\ report_file # None
    /\ report_file[1].generated_at = 2
    /\ report_file[1].total_emails_processed = 1

\* the reply has no summary line, or one with an empty value
NoSummary == Parsed.summary = None \/ Parsed.summary[1] = ""

\* the category decided from the reply
DecidedCategory ==
    IF Parsed.category # None /\ Parsed.category[1] \in Categories
    THEN Parsed.category[1]
    ELSE "General Inquiry"

\* C20 as stated: when the reply parses and yields no summary, the adapter
\* keeps the category decided from the reply and returns the summary
\* fallback_classification would produce for the message.
C20_SummaryOfFallbackScheme ==
    (Called /\ Replied /\ NoSummary) =>
        /\ raised = ""
        /\ category = DecidedCategory
        /\ summary = fallback_classification(Current).summary

\* C20 amended: when the reply parses and yields no summary, the adapter
\* keeps the category decided from the reply, does not invoke the fallback
\* classifier, and returns "Email from <sender> regarding <subject>" with the
\* whole subject.
C20_SummaryOfSenderAndSubject ==
    (Called /\ Replied /\ NoSummary) =>
        /\ pc = "notify"
        /\ raised = ""
        /\ ~fallback_used
        /\ category = DecidedCategory
        /\ summary = "Email from " \o Current.sender \o " regarding " \o Current.subject

C20_Witness ==
    /\ pc = "notify"
    /\ ai_reply.text = "Category: Billing"
    /\ Current.subject = "Login issue"
    /\ category = "Billing"
    /\ summary = "Email from ann@x.io regarding Login issue"

\* C21: each message goes Fetched -> Classified -> NotificationRequested ->
\* Recorded in that order, skipping and repeating nothing: the i-th
\* classification, the i-th notification and the i-th record are those of the
\* i-th fetched message, a notification is requested only for a classified
\* message and a record is stored only for a message whose notification was
\* requested, sent or not.
C21_MessageStates ==
    /\ Len(processed_emails) <= Len(notifications)
    /\ Len(notifications) <= Len(classified)
    /\ Len(classified) <= Len(emails)
    /\ \A i \in 1..Len(classified) : classified[i].id = emails[i].id
    /\ \A i \in 1..Len(notifications) : notifications[i].id = emails[i].id
    /\ \A i \in 1..Len(processed_emails) : processed_emails[i].timestamp = emails[i].timestamp
    /\ \A i \in 1..Len(emails) : \A j \in 1..Len(emails) : emails[i].id = emails[j].id => i = j

C21_Witness ==
    /\ pc = "record"
    /\ idx = 2
    /\ Len(classified) = 2
    /\ Len(notifications) = 2
    /\ ~notifications[2].sent
    /\ Len(processed_emails) = 1

\* C22: update_analytics(message, category, summary) appends the keywords of
\* subject + " " + body to the keyword list of the given category and appends
\* one TriageRecord with the message's timestamp, sender and subject, the given
\* category and summary and those keywords; the keyword lists of the other
\* categories, the earlier log entries and the rest of the object stay as
\* they were.
C22_RecordFrame ==
    [][(pc = "record" /\ pc' # "failed") =>
          LET m  == emails[idx]
              ks == extract_keywords(m.subject \o " " \o m.body)
          IN  /\ category_keywords'[category] = category_keywords[category] \o ks
              /\ \A c \in Categories \ {category} :
                    category_keywords'[c] = category_keywords[c]
              /\ Len(processed_emails') = Len(processed_emails) + 1
              /\ SubSeq(processed_emails', 1, Len(processed_emails)) = processed_emails
              /\ processed_emails'[Len(processed_emails')] =
                    [timestamp |-> m.timestamp, category |-> category, summary |-> summary,
                     sender |-> m.sender, subject |-> m.subject, keywords |-> ks]
              /\ UNCHANGED <<emails, classified, notifications, export_vars, settings>>]_vars

C22_Witness ==
    /\ pc = "close"
    /\ Len(processed_emails) = 2
    /\ processed_emails[1].category = "Billing"
    /\ processed_emails[2].category = "Product Support"
    /\ processed_emails[1].keywords # <<>>
    /\ category_keywords["Billing"] = processed_emails[1].keywords
    /\ category_keywords["Product Support"] = processed_emails[2].keywords
    /\ category_keywords["General Inquiry"] = <<>>

\* C23: for every category and every token, the number of occurrences of the
\* token in the category's keyword list never decreases in a step of the run
\* (classify, dispatch, record, snapshot, export).
C23_CountsNeverDecrease ==
    [][\/ category_keywords' = category_keywords
       \/ \A c \in Categories : \A i \in 1..Len(category_keywords[c]) :
             Occurrences(category_keywords'[c], category_keywords[c][i])
                >= Occurrences(category_keywords[c], category_keywords[c][i])]_vars

C23_Witness ==
    /\ pc = "done"
    /\ Len(processed_emails) = 2
    /\ processed_emails[1].category = "Billing"
    /\ processed_emails[2].category = "Billing"
    /\ processed_emails[1].keywords # <<>>
    /\ processed_emails[2].keywords # processed_emails[1].keywords
    /\ Len(category_keywords["Billing"]) > Len(processed_emails[2].keywords)

\* C24: the snapshot is a pure read: the step that takes it (the report
\* export) leaves the TriageRecord log and every keyword list as they were,
\* the snapshot has one entry for each of the three categories, and two
\* snapshots with no record in between are equal.
C24_SnapshotPureRead ==
    /\ [][report_file' # report_file => UNCHANGED analytics_vars]_vars
    /\ [](report_file # None =>
            /\ DOMAIN report_file[1].categories = {categories[i] : i \in 1..Len(categories)}
            /\ Cardinality(DOMAIN report_file[1].categories) = 3)
    /\ [][(report_file # None /\ report_file' # None
              /\ processed_emails' = processed_emails) =>
            report_file'[1].categories = report_file[1].categories]_vars

C24_Witness ==
    /\ pc = "exporting"
    /\ Len(processed_emails) = 2
    /\ report_file # None
    /\ report_file[1].generated_at = 3
    /\ report_file[1].categories["Billing"].total_emails = 2
    /\ category_keywords["Billing"] # <<>>

\* C25: for a category with no recorded keyword the snapshot gives an empty
\* top_keywords list and total_emails = 0; in the initial state this is so for
\* all three categories.
C25_EmptyCategorySnapshot ==
    /\ \A c \in Categories :
          category_keywords[c] = <<>> =>
              generate_keyword_analytics(processed_emails, category_keywords)[c]
                  = [top_keywords |-> <<>>, total_emails |-> 0]
    /\ processed_emails = <<>> =>
          \A c \in Categories :
              generate_keyword_analytics(processed_emails, category_keywords)[c].total_emails = 0

C25_Witness ==
    /\ Len(processed_emails) = 1
    /\ processed_emails[1].subject = "Hi"
    /\ processed_emails[1].category = "General Inquiry"
    /\ category_keywords["General Inquiry"] = <<>>
    /\ generate_keyword_analytics(processed_emails, category_keywords)["General Inquiry"]
          = [top_keywords |-> <<>>, total_emails |-> 0]

\* C26: the messages are processed one at a time in fetch order: when the
\* classification of message idx starts, the messages before it are all
\* recorded, and at any moment at most one message (message idx) is classified
\* and not yet recorded.
C26_OneAtATime ==
    /\ Len(classified) - Len(processed_emails) \in {0, 1}
    /\ pc = "classify" =>
          (Len(classified) = idx - 1 /\ Len(processed_emails) = idx - 1)
    /\ pc \in {"notify", "record"} =>
          (Len(classified) = idx /\ Len(processed_emails) = idx - 1)
    /\ Len(classified) > Len(processed_emails) => classified[Len(classified)].id = emails[idx].id

C26_Witness ==
    /\ pc = "classify"
    /\ idx = 2
    /\ Len(classified) = 1
    /\ Len(processed_emails) = 1
    /\ Len(notifications) = 1

\* the keywords of the entries i.. of log whose category is c, in log order
RECURSIVE KeywordsOf(_, _, _)
KeywordsOf(log, c, i) ==
    IF i > Len(log) THEN <<>>
    ELSE (IF log[i].category = c THEN log[i].keywords ELSE <<>>) \o KeywordsOf(log, c, i + 1)

\* the number of keywords of the entries i.. of log
RECURSIVE KeywordTotal(_, _)
KeywordTotal(log, i) ==
    IF i > Len(log) THEN 0 ELSE Len(log[i].keywords) + KeywordTotal(log, i + 1)

\* C27: for every category, category_keywords[category] is the concatenation,
\* in log order, of the keywords of the TriageRecords of that category; the
\* number of stored keywords over all categories is the number of keywords
\* over all log entries.
C27_KeywordsMatchLog ==
    /\ \A c \in Categories : category_keywords[c] = KeywordsOf(processed_emails, c, 1)
    /\ Len(category_keywords["Product Support"]) + Len(category_keywords["Billing"])
          + Len(category_keywords["General Inquiry"]) = KeywordTotal(processed_emails, 1)

C27_Witness ==
    /\ Len(processed_emails) = 2
    /\ processed_emails[1].category = "General Inquiry"
    /\ processed_emails[2].category = "General Inquiry"
    /\ processed_emails[1].subject = "Login issue"
    /\ processed_emails[2].subject = "Invoice question"
    /\ category_keywords["General Inquiry"]
          = processed_emails[1].keywords \o processed_emails[2].keywords
    /\ processed_emails[1].keywords # <<>>
    /\ processed_emails[2].keywords # <<>>

\* C28: the category and the summary handed to the notification dispatch of a
\* message are those the classification of the message returned and those
\* stored in its TriageRecord; each message is classified once.
C28_NotifiedAsRecorded ==
    /\ \A i \in 1..Min(Len(notifications), Len(classified)) :
          /\ notifications[i].category = classified[i].category
          /\ notifications[i].summary = classified[i].summary
    /\ \A i \in 1..Min(Len(processed_emails), Len(notifications)) :
          /\ processed_emails[i].category = notifications[i].category
          /\ processed_emails[i].summary = notifications[i].summary
    /\ Len(classified) <= idx
    /\ \A i \in 1..Len(classified) : classified[i].id = i

C28_Witness ==
    /\ pc = "close"
    /\ Len(processed_emails) = 2
    /\ emails[1].subject = "Login issue"
    /\ ~classified[1].fallback
    /\ notifications[1].category = "Billing"
    /\ processed_emails[1].category = "Billing"
    /\ processed_emails[1].summary = "Customer was charged twice"

\* C29: when fetch_unread_emails raises, whatever it had parsed, the workflow
\* gets the empty list and behaves as for an empty inbox: it returns without
\* an error, no message is classified, dispatched or recorded and no report
\* is written.
C29_FetchFailureAsEmptyInbox ==
    fetch_error =>
        /\ pc = "returned"
        /\ raised = ""
        /\ emails = <<>>
        /\ classified = <<>>
        /\ notifications = <<>>
        /\ processed_emails = <<>>
        /\ \A c \in Categories : category_keywords[c] = <<>>
        /\ csv_file = None
        /\ report_file = None

C29_Witness ==
    /\ fetch_error
    /\ Len(parsed) = 2
    /\ parsed[1].subject = "Login issue"
    /\ emails = <<>>
    /\ pc = "returned"

====
